---- MODULE Spec2Model ----
(***************************************************************************)
(* Model of mail_reader.MailReader (src/mail_reader/mail_reader.py) and of *)
(* the runner that drives it (src/runner/runner.py): construction from a   *)
(* configuration mapping, one process() pass over an IMAP mailbox, the     *)
(* dispatch of every message part to the log or to the attachment folder,  *)
(* and the pure helper clean_text.                                         *)
(*                                                                         *)
(* Text is a sequence of one-character strings, bytes are a sequence of    *)
(* integers 0..255.  The IMAP server, the parsed messages and the I/O      *)
(* outcome of every filesystem call are inputs chosen by the environment.  *)
(***************************************************************************)
EXTENDS Integers, Sequences, FiniteSets, TLC

\* ------------------------------------------------------------------ bounds
\* Longest search result (message identifiers matched by the server).
MaxIds == 2
\* Most leaf parts of one multipart message (the container comes on top).
MaxParts == 2
\* Longest input of clean_text explored by SpecClean.
MaxLen == 3

\* ------------------------------------------------------------ value domains
\* Python's None for a string-valued slot (config.get(..., None), get_filename()).
None == "<None>"
\* get_payload(decode=True) of a multipart container: None instead of bytes.
NoPayload == <<-1>>
\* msg["Subject"] of a message without a Subject header.
NoSubject == <<"<missing>">>

\* Values a configuration mapping can hold under the user / password keys.
UserValues == {None, "", "reader"}
PasswordValues == {None, "", "secret"}

\* Characters of the texts explored: a letter, a digit, and three
\* non-alphanumeric ones.
Alnum == {"Q", "1"}
Chars == Alnum \cup {" ", "!", "_"}

\* The byte b" " that separates identifiers in a SEARCH response.
SP == 32

\* Subject of the fetched messages ("Q1 !"), their attachment filename, the
\* configured output root being implicit in the filesystem record below.
Subjects == {<<"Q", "1", " ", "!">>}
Filenames == {None, "report.pdf"}

\* Payloads after transfer decoding: b"Hi" and b"\xff\xfe" (no UTF-8 text
\* contains 0xFF or 0xFE).
Payloads == {<<72, 105>>, <<255, 254>>}
\* Content of a file that is on disk before the run.
OldBytes == <<79>>

\* Content-Disposition header: absent, inline, attachment.
Dispositions == {None, "inline", "attachment; filename=\"report.pdf\""}

LeafTypes == {"text/plain", "text/html"}
ContainerType == "multipart/mixed"

LeafParts ==
    [ctype : LeafTypes, disp : Dispositions, filename : Filenames,
     payload : Payloads]
ContainerParts ==
    [ctype : {ContainerType}, disp : Dispositions, filename : Filenames,
     payload : {NoPayload}]
NoPart == [ctype |-> "", disp |-> None, filename |-> None, payload |-> NoPayload]

\* Outcome of every filesystem call of one download_attachment: all succeed,
\* or the named call raises OSError.
IoOutcomes == {"ok", "mkdir_root", "mkdir_path", "open", "write"}

VARIABLES
    pc,          \* position of the runner / of process()
    err,         \* the exception that ended the run, "none" while it runs
    config,      \* the configuration mapping handed to MailReader
    user,        \* self.user
    password,    \* self.password
    fs,          \* the filesystem: cwdDirs, rootDir, subDirs, files
    ops,         \* protocol operations issued so far, in order
    status,      \* status of the server's SEARCH answer
    matched,     \* identifiers the server matched, in order
    messages,    \* the list search_messages returned
    i,           \* index into messages of the next identifier to fetch
    subject,     \* subject of the message being processed
    partsLeft,   \* parts of the current message msg.walk() has yet to yield
    lastVia,     \* "multipart_process" / "body_process": who handled lastPart
    lastPart,    \* the part handled by the latest part step
    lastOutcome, \* what that step did
    lastLog,     \* the latest line written to the log
    ctIn,        \* SpecClean: the text given to clean_text
    ctOut        \* SpecClean: <<clean_text(ctIn)>>, <<>> before the call

vars == <<pc, err, config, user, password, fs, ops, status, matched, messages,
          i, subject, partsLeft, lastVia, lastPart, lastOutcome, lastLog, ctIn, ctOut>>

cleanVars == <<ctIn, ctOut>>
partVars == <<lastVia, lastPart, lastOutcome>>
clientVars == <<config, user, password>>
searchVars == <<status, matched, messages>>

\* ------------------------------------------------------------ pure helpers
\* Python truthiness of an optional string: None and "" are falsy.
Truthy(v) == v # None /\ v # ""

\* str.isalnum() of one character.
isalnum(ch) == ch \in Alnum

\* MailReader.clean_text with the non-alphanumeric characters dropped
\* instead of replaced.
RECURSIVE clean_text_drop(_)
clean_text_drop(text) ==
    IF text = <<>> THEN <<>>
    ELSE (IF isalnum(Head(text)) THEN <<Head(text)>> ELSE <<>>)
         \o clean_text_drop(Tail(text))

\* MailReader.clean_text: "".join(c if c.isalnum() else "_" for c in text)
RECURSIVE clean_text(_)
clean_text(text) ==
    IF text = <<>> THEN <<>>
    ELSE <<IF isalnum(Head(text)) THEN Head(text) ELSE "_">>
         \o clean_text(Tail(text))

\* Index of the first occurrence of sep in s, 0 when there is none.
FirstSep(s, sep) ==
    IF \E k \in 1..Len(s) : s[k] = sep
    THEN CHOOSE k \in 1..Len(s) :
            s[k] = sep /\ \A j \in 1..(k - 1) : s[j] # sep
    ELSE 0

\* bytes.split(sep): cut at every separator; never the empty list.
RECURSIVE split(_, _)
split(s, sep) ==
    LET k == FirstSep(s, sep)
    IN IF k = 0 THEN <<s>>
       ELSE <<SubSeq(s, 1, k - 1)>> \o split(SubSeq(s, k + 1, Len(s)), sep)

\* The identifier of message number n as the server writes it (one digit).
IdBytes(n) == <<48 + n>>

\* The server's SEARCH data line: the matched identifiers joined by b" ".
RECURSIVE JoinIds(_)
JoinIds(ids) ==
    IF ids = <<>> THEN <<>>
    ELSE IF Len(ids) = 1 THEN ids[1]
    ELSE ids[1] \o <<SP>> \o JoinIds(Tail(ids))

\* The text a non-OK SEARCH answer carries instead of identifiers (b"NO").
ErrorText == <<78, 79>>

\* bytes.decode(): succeeds on ASCII, raises on the bytes no UTF-8 text holds.
Decodable(b) == b # NoPayload /\ \A k \in 1..Len(b) : b[k] < 128
\* The character an ASCII byte of the payloads above decodes to.
CharOf(byte) == IF byte = 72 THEN "H" ELSE IF byte = 105 THEN "i" ELSE "?"
decode(b) == [k \in 1..Len(b) |-> CharOf(b[k])]

\* str(part.get("Content-Disposition")): None becomes the text "None".
str(d) == IF d = None THEN "None" ELSE d
\* "attachment" in content_disposition, for the header texts above.
HasAttachment(d) == str(d) = "attachment; filename=\"report.pdf\""

\* f with key k bound to v.
Put(f, k, v) == [x \in DOMAIN f \cup {k} |-> IF x = k THEN v ELSE f[x]]

NoOutcome == [logged |-> 0, download |-> FALSE, wrote |-> FALSE, fault |-> "none"]
NoLine == [kind |-> "", text |-> <<>>]
\* The From header of the fetched messages.
Sender == <<"Q">>

\* ------------------------------------------------------------- filesystem
\* Folder names the subjects sanitize to.
Folders == {clean_text(s) : s \in Subjects}
\* Files that may lie in the sub-folders s of the output root before the run.
FilesIn(s) == UNION {[d -> {OldBytes}] : d \in SUBSET (s \X {"report.pdf"})}
\* Every filesystem the run may start from: cwdDirs are the directories of
\* the working directory, rootDir tells whether path_attachments is a
\* directory, subDirs are the directories under it, files maps
\* <<folder, filename>> under the root to the file's bytes.
FsStates ==
    UNION {
        {[cwdDirs |-> c, rootDir |-> FALSE, subDirs |-> {}, files |-> <<>>]}
        \cup UNION {
            {[cwdDirs |-> c, rootDir |-> TRUE, subDirs |-> s, files |-> f] :
                f \in FilesIn(s)} : s \in SUBSET Folders}
        : c \in SUBSET Folders}

\* ------------------------------------------------------------ construction
\* The check of __init__ with "or" in place of "and".
ConfigRejectedEither(u, p) == ~Truthy(u) \/ ~Truthy(p)

\* __init__, line 42: if not self.user and not self.password: raise
ConfigRejected(u, p) == ~Truthy(u) /\ ~Truthy(p)

\* MailReader(config) in the runner.
Construct ==
    /\ pc = "init"
    /\ user' = config.user
    /\ password' = config.password
    /\ IF ConfigRejected(config.user, config.password)
       THEN pc' = "faulted" /\ err' = "ConfigError"
       ELSE pc' = "constructed" /\ err' = err
    /\ UNCHANGED <<config, fs, ops, searchVars, i, subject, partsLeft,
                   partVars, lastLog, cleanVars>>

\* ------------------------------------------------------- attachment writes
\* download_attachment(part, subject) on the filesystem f, io naming the
\* filesystem call that raises (if any): the filesystem it leaves, whether
\* the payload was written, and the exception that escapes.
download_attachment(part, subj, f, io) ==
    LET filename == part.filename
        folder_name == clean_text(subj)
        key == <<folder_name, filename>>
        made_root == [f EXCEPT !.rootDir = TRUE]
        made_path == [made_root EXCEPT !.subDirs = @ \cup {folder_name}]
        opened == [made_path EXCEPT !.files = Put(@, key, <<>>)]
        written == [made_path EXCEPT !.files = Put(@, key, part.payload)]
    IN  IF ~Truthy(filename)
        THEN [fs |-> f, wrote |-> FALSE, fault |-> "none"]
        ELSE IF folder_name \in f.cwdDirs
        THEN [fs |-> f, wrote |-> FALSE, fault |-> "none"]
        ELSE IF ~f.rootDir /\ io = "mkdir_root"
        THEN [fs |-> f, wrote |-> FALSE, fault |-> "OSError"]
        ELSE IF folder_name \notin made_root.subDirs /\ io = "mkdir_path"
        THEN [fs |-> made_root, wrote |-> FALSE, fault |-> "OSError"]
        ELSE IF io = "open"
        THEN [fs |-> made_path, wrote |-> FALSE, fault |-> "OSError"]
        ELSE IF part.payload = NoPayload
        THEN [fs |-> opened, wrote |-> FALSE, fault |-> "TypeError"]
        ELSE IF io = "write"
        THEN [fs |-> opened, wrote |-> FALSE, fault |-> "OSError"]
        ELSE [fs |-> written, wrote |-> TRUE, fault |-> "none"]

\* ------------------------------------------------------------ part dispatch
\* multipart_process(part, subject): the log line it writes (NoLine if
\* none), the filesystem it leaves and the exception that escapes.  body is
\* bound only when the decode inside try/except succeeded.
multipart_process(part, subj, f, io) ==
    LET content_type == part.ctype
        content_disposition == str(part.disp)
        body_bound == Decodable(part.payload)
    IN  IF content_type = "text/plain" /\ ~HasAttachment(content_disposition)
        THEN IF body_bound
             THEN [fs |-> f, line |-> [kind |-> "body", text |-> decode(part.payload)],
                   download |-> FALSE, wrote |-> FALSE, fault |-> "none"]
             ELSE [fs |-> f, line |-> NoLine,
                   download |-> FALSE, wrote |-> FALSE, fault |-> "UnboundLocalError"]
        ELSE IF HasAttachment(content_disposition)
        THEN LET d == download_attachment(part, subj, f, io)
             IN [fs |-> d.fs, line |-> NoLine,
                 download |-> TRUE, wrote |-> d.wrote, fault |-> d.fault]
        ELSE [fs |-> f, line |-> NoLine,
              download |-> FALSE, wrote |-> FALSE, fault |-> "none"]

\* body_process(msg): the payload is decoded before the content type is
\* looked at.
body_process(part, f) ==
    IF ~Decodable(part.payload)
    THEN [fs |-> f, line |-> NoLine,
          download |-> FALSE, wrote |-> FALSE, fault |-> "UnicodeDecodeError"]
    ELSE IF part.ctype = "text/plain"
    THEN [fs |-> f, line |-> [kind |-> "body", text |-> decode(part.payload)],
          download |-> FALSE, wrote |-> FALSE, fault |-> "none"]
    ELSE [fs |-> f, line |-> NoLine,
          download |-> FALSE, wrote |-> FALSE, fault |-> "none"]

\* What a part step leaves in the state: r is the result of the handler,
\* via its name, last tells whether the part was the message's last one.
PartStep(part, r, via, last) ==
    /\ lastVia' = via
    /\ lastPart' = part
    /\ lastOutcome' = [logged |-> IF r.line = NoLine THEN 0 ELSE 1,
                       download |-> r.download, wrote |-> r.wrote,
                       fault |-> r.fault]
    /\ fs' = r.fs
    /\ lastLog' = IF r.line = NoLine THEN lastLog ELSE r.line
    /\ IF r.fault # "none"
       THEN pc' = "faulted" /\ err' = r.fault /\ UNCHANGED <<i, partsLeft>>
       ELSE /\ err' = err
            /\ partsLeft' = partsLeft - 1
            /\ IF last THEN pc' = "loop" /\ i' = i + 1
                       ELSE pc' = pc /\ i' = i
    /\ UNCHANGED <<clientVars, ops, searchVars, subject, cleanVars>>

\* One turn of "for part in msg.walk(): self.multipart_process(part, subject)":
\* walk yields the container first, then its leaves.  The filesystem calls
\* can only fail where they are made, under an attachment disposition.
MultipartProcess ==
    /\ pc = "walk"
    /\ \E part \in (IF lastPart = NoPart THEN ContainerParts ELSE LeafParts) :
       \E io \in (IF HasAttachment(part.disp) THEN IoOutcomes ELSE {"ok"}) :
          PartStep(part, multipart_process(part, subject, fs, io),
                   "multipart_process", partsLeft = 1)

\* "else: self.body_process(msg)" for a message that is not multipart.
BodyProcess ==
    /\ pc = "body"
    /\ \E part \in LeafParts :
          PartStep(part, body_process(part, fs), "body_process", TRUE)

\* ------------------------------------------------------------ the session
Op(name) == [op |-> name, arg |-> <<>>]
FetchOp(id) == [op |-> "fetch", arg |-> id]

\* conn_and_auth(): IMAP4_SSL(host, port), then login(user, password).  The
\* host may be unreachable and the server may reject the login.
ConnAndAuth ==
    /\ pc = "constructed"
    /\ \E outcome \in {"ok", "unreachable", "rejected"} :
          /\ ops' = IF outcome = "unreachable"
                    THEN Append(ops, Op("connect"))
                    ELSE ops \o <<Op("connect"), Op("login")>>
          /\ pc' = IF outcome = "ok" THEN "authed" ELSE "faulted"
          /\ err' = IF outcome = "unreachable" THEN "OSError"
                    ELSE IF outcome = "rejected" THEN "IMAP4.error"
                    ELSE err
    /\ UNCHANGED <<clientVars, fs, searchVars, i, subject, partsLeft,
                   partVars, lastLog, cleanVars>>

\* imap.select("INBOX")
Select ==
    /\ pc = "authed"
    /\ ops' = Append(ops, Op("select"))
    /\ pc' = "selected"
    /\ UNCHANGED <<err, clientVars, fs, searchVars, i, subject, partsLeft,
                   partVars, lastLog, cleanVars>>

\* search_messages with the status test left out.
search_messages_unchecked(st, data) == split(data, SP)

\* search_messages(imap): [] on a status other than "OK", else
\* messages[0].split(b" ").
search_messages(st, data) == IF st # "OK" THEN <<>> ELSE split(data, SP)

\* messages = self.search_messages(imap): the server matches the first n
\* messages of the mailbox, or answers NO.
SearchMessages ==
    /\ pc = "selected"
    /\ \E st \in {"OK", "NO"}, n \in 0..MaxIds :
          LET found == IF st = "OK" THEN [k \in 1..n |-> IdBytes(k)] ELSE <<>>
              data == IF st = "OK" THEN JoinIds(found) ELSE ErrorText
          IN  /\ status' = st
              /\ matched' = found
              /\ messages' = search_messages(st, data)
              /\ lastLog' = IF st # "OK"
                            THEN [kind |-> "warning", text |-> <<>>]
                            ELSE lastLog
    /\ ops' = Append(ops, Op("search"))
    /\ pc' = "loop"
    /\ i' = 1
    /\ UNCHANGED <<err, clientVars, fs, subject, partsLeft, partVars,
                   cleanVars>>

\* One turn of "for i in messages": imap.fetch(i, "(RFC822)"), then for the
\* tuple of the response message_from_bytes, obtain_header and the choice
\* between walk and body_process.  The fetch may raise, may answer without
\* a message (no tuple in the response), or may carry a message; only a
\* well-formed identifier can name a message.  obtain_header raises on a
\* message without Subject and logs two lines otherwise.
Fetch ==
    /\ pc = "loop"
    /\ i <= Len(messages)
    /\ ops' = Append(ops, FetchOp(messages[i]))
    /\ lastVia' = ""
    /\ lastPart' = NoPart
    /\ lastOutcome' = NoOutcome
    /\ \E resp \in {"error", "no_data", "message"} :
          /\ resp = "message" => messages[i] # <<>>
          /\ IF resp = "error"
             THEN /\ pc' = "faulted" /\ err' = "IMAP4.error"
                  /\ UNCHANGED <<i, subject, partsLeft, lastLog>>
             ELSE IF resp = "no_data"
             THEN /\ pc' = "loop" /\ i' = i + 1
                  /\ UNCHANGED <<err, subject, partsLeft, lastLog>>
             ELSE \E subj \in Subjects \cup {NoSubject}, multipart \in BOOLEAN,
                     n \in 1..MaxParts :
                     IF subj = NoSubject
                     THEN /\ pc' = "faulted" /\ err' = "TypeError"
                          /\ UNCHANGED <<i, subject, partsLeft, lastLog>>
                     ELSE /\ subject' = subj
                          /\ lastLog' = [kind |-> "From", text |-> Sender]
                          /\ pc' = IF multipart THEN "walk" ELSE "body"
                          /\ partsLeft' = IF multipart THEN n + 1 ELSE 1
                          /\ UNCHANGED <<err, i>>
    /\ UNCHANGED <<clientVars, fs, searchVars, cleanVars>>

\* imap.close() issued on every exit of the loop, the faulted one included.
CloseAlways ==
    /\ \/ pc = "loop" /\ i > Len(messages)
       \/ pc = "faulted" /\ ops # <<>> /\ ops[Len(ops)].op # "close"
    /\ ops' = Append(ops, Op("close"))
    /\ pc' = IF pc = "loop" THEN "done" ELSE pc
    /\ UNCHANGED <<err, clientVars, fs, searchVars, i, subject, partsLeft,
                   partVars, lastLog, cleanVars>>

\* imap.close() after the loop; process() returns and the runner ends.
Close ==
    /\ pc = "loop"
    /\ i > Len(messages)
    /\ ops' = Append(ops, Op("close"))
    /\ pc' = "done"
    /\ UNCHANGED <<err, clientVars, fs, searchVars, i, subject, partsLeft,
                   partVars, lastLog, cleanVars>>

\* ---------------------------------------------------------- specification
Init ==
    /\ pc = "init"
    /\ err = "none"
    /\ config \in [user : UserValues, password : PasswordValues]
    /\ user = None
    /\ password = None
    /\ fs \in FsStates
    /\ ops = <<>>
    /\ status = ""
    /\ matched = <<>>
    /\ messages = <<>>
    /\ i = 1
    /\ subject = <<>>
    /\ partsLeft = 0
    /\ lastVia = ""
    /\ lastPart = NoPart
    /\ lastOutcome = NoOutcome
    /\ lastLog = NoLine
    /\ ctIn = <<>>
    /\ ctOut = <<>>

Next ==
    \/ Construct
    \/ ConnAndAuth
    \/ Select
    \/ SearchMessages
    \/ Fetch
    \/ MultipartProcess
    \/ BodyProcess
    \/ Close

Spec == Init /\ [][Next]_vars

\* ------------------------------------------------- clean_text on its own
\* Every text of at most n characters.
Texts(n) == UNION {[1..k -> Chars] : k \in 0..n}

\* clean_text applied to the input, then to its own result.
CleanText ==
    /\ Len(ctOut) < 2
    /\ ctOut' = Append(ctOut,
                       clean_text(IF ctOut = <<>> THEN ctIn ELSE ctOut[Len(ctOut)]))
    /\ UNCHANGED <<pc, err, clientVars, fs, ops, searchVars, i, subject,
                   partsLeft, partVars, lastLog, ctIn>>

InitClean ==
    /\ pc = "init"
    /\ err = "none"
    /\ config = [user |-> "reader", password |-> "secret"]
    /\ user = None
    /\ password = None
    /\ fs = [cwdDirs |-> {}, rootDir |-> FALSE, subDirs |-> {}, files |-> <<>>]
    /\ ops = <<>>
    /\ status = ""
    /\ matched = <<>>
    /\ messages = <<>>
    /\ i = 1
    /\ subject = <<>>
    /\ partsLeft = 0
    /\ lastVia = ""
    /\ lastPart = NoPart
    /\ lastOutcome = NoOutcome
    /\ lastLog = NoLine
    /\ ctIn \in Texts(MaxLen)
    /\ ctOut = <<>>

NextClean == CleanText

SpecClean == InitClean /\ [][NextClean]_vars

\* ------------------------------------------------------------------ claims
\* The client exists: __init__ returned without raising.
Constructed == pc # "init" /\ err # "ConfigError"

\* Names of the protocol operations issued so far.
OpNames == [k \in 1..Len(ops) |-> ops[k].op]
\* Identifiers fetched so far, in order.
Fetched == SelectSeq(ops, LAMBDA o : o.op = "fetch")

C2_BothCredentialsPresent ==
    Constructed => Truthy(user) /\ Truthy(password)

\* C3: multipart_process takes, for every part, the one of three outcomes
\* that content type and Content-Disposition select: text/plain without
\* "attachment" is logged once and writes no file; a disposition with
\* "attachment" goes to download_attachment and is not logged; any other
\* part is neither logged nor written.
C3_PartOutcome ==
    lastVia = "multipart_process" =>
        LET p == lastPart
            o == lastOutcome
        IN  IF p.ctype = "text/plain" /\ ~HasAttachment(p.disp)
            THEN o.logged = 1 /\ ~o.download /\ ~o.wrote /\ o.fault = "none"
            ELSE IF HasAttachment(p.disp)
            THEN o.download /\ o.logged = 0
            ELSE o.logged = 0 /\ ~o.download /\ ~o.wrote /\ o.fault = "none"

\* C4: after download_attachment ran to its end for a part that carries
\* payload bytes and filename f under subject s, whatever the filesystem
\* held before, the directory <root>/clean_text(s) exists and the file f in
\* it holds the part's payload.
C4_AttachmentPersisted ==
    (lastOutcome.download /\ Truthy(lastPart.filename)
        /\ lastPart.payload # NoPayload /\ lastOutcome.fault = "none") =>
        LET key == <<clean_text(subject), lastPart.filename>>
        IN  /\ fs.rootDir
            /\ clean_text(subject) \in fs.subDirs
            /\ key \in DOMAIN fs.files
            /\ fs.files[key] = lastPart.payload

\* C5: a payload that cannot be decoded as text is skipped silently by
\* multipart_process: no error escapes, nothing is logged, nothing is
\* written.  Stated for the parts without an attachment disposition, the
\* text/plain ones among them; attachment parts are written by design (C4).
C5_DecodeFailureSilent ==
    (lastVia = "multipart_process" /\ ~Decodable(lastPart.payload)
        /\ ~HasAttachment(lastPart.disp)) =>
        /\ lastOutcome.fault = "none"
        /\ lastOutcome.logged = 0
        /\ ~lastOutcome.wrote
        /\ pc # "faulted"

\* C6: after a SEARCH answer other than OK search_messages has returned the
\* empty list without raising, no fetch is issued, and the run goes on to
\* close the mailbox and end normally.
C6_SearchFailureNonFatal ==
    status = "NO" =>
        /\ messages = <<>>
        /\ err = "none"
        /\ Fetched = <<>>
        /\ lastPart = NoPart
        /\ pc \in {"loop", "done"}
        /\ pc = "loop" => ENABLED Close
        /\ pc = "done" => OpNames = <<"connect", "login", "select", "search", "close">>

\* C6 witness: the run has ended normally after a NO answer to the search.
C6_Witness == status = "NO" /\ pc = "done"

\* C7: body_process logs the decoded payload of a text/plain body once and
\* does nothing at all - no log, no file, no error - for any other content
\* type, whatever the payload.
C7_BodyRule ==
    lastVia = "body_process" =>
        IF lastPart.ctype = "text/plain"
        THEN Decodable(lastPart.payload) =>
                /\ lastOutcome.logged = 1
                /\ lastLog = [kind |-> "body", text |-> decode(lastPart.payload)]
                /\ lastOutcome.fault = "none"
        ELSE /\ lastOutcome.logged = 0
             /\ ~lastOutcome.wrote
             /\ lastOutcome.fault = "none"

\* The pointwise image of x: alphanumerics kept, everything else "_".
Pointwise(x, y) ==
    /\ Len(y) = Len(x)
    /\ \A k \in 1..Len(x) :
          /\ isalnum(x[k]) => y[k] = x[k]
          /\ ~isalnum(x[k]) => y[k] = "_"

\* C8: clean_text keeps the length and every alphanumeric character in
\* place and puts "_" at every other position; an alphanumeric text maps to
\* itself and a second application changes nothing.
C8_CleanTextPositionwise ==
    /\ Len(ctOut) >= 1 => Pointwise(ctIn, ctOut[1])
    /\ (Len(ctOut) >= 1 /\ \A k \in 1..Len(ctIn) : isalnum(ctIn[k])) =>
           ctOut[1] = ctIn
    /\ Len(ctOut) = 2 => ctOut[2] = ctOut[1]

\* C8 witness: "Q!1" was cleaned to "Q_1" and cleaned again.
C8_Witness ==
    ctIn = <<"Q", "!", "1">> /\ Len(ctOut) = 2 /\ ctOut[1] = <<"Q", "_", "1">>

\* The order of the protocol operations in every state of a run.
C9_Order ==
    /\ \A k \in 1..Len(ops) :
          /\ OpNames[k] = "connect" <=> k = 1
          /\ OpNames[k] = "login" <=> k = 2
          /\ OpNames[k] = "select" <=> k = 3
          /\ OpNames[k] = "search" <=> k = 4
          /\ k >= 5 => OpNames[k] \in {"fetch", "close"}
          /\ OpNames[k] = "close" => k = Len(ops)
          /\ OpNames[k] # "logout"
    /\ pc \in {"authed", "selected", "loop", "walk", "body", "done"} =>
          Len(ops) >= 2
    /\ (pc = "faulted" /\ err # "ConfigError") => Len(ops) >= 1
    /\ pc = "done" <=> (ops # <<>> /\ OpNames[Len(ops)] = "close")
    /\ pc = "done" => (err = "none" /\ i = Len(messages) + 1
                       /\ Len(Fetched) = Len(messages))
    /\ pc = "faulted" <=> err # "none"

\* C9: in one process() run the operations are connect, login, select
\* INBOX, search, the fetches, close, in this order; connect is issued
\* once; close is issued once, last, exactly in the runs that end without a
\* fault; logout is never issued; and once a step has faulted nothing
\* further happens: no message is processed and no close is issued.
C9_SessionLifecycle ==
    /\ []C9_Order
    /\ [][pc # "faulted" /\ pc # "done"]_vars

\* C9 witness: a run in which the second fetch faulted after the first
\* message was processed.
C9_Witness ==
    /\ pc = "faulted"
    /\ Len(Fetched) = 2
    /\ OpNames[Len(ops)] = "fetch"

\* C10: the fetches issued are, one for one and in order, the identifiers
\* the server matched; with OK and no match search_messages returns the
\* empty list and no fetch is issued.
C10_FetchesFollowMatches ==
    status = "OK" =>
        /\ messages = matched
        /\ Len(Fetched) <= Len(matched)
        /\ \A k \in 1..Len(Fetched) : k <= Len(matched) =>
              Fetched[k].arg = matched[k]
        /\ pc = "done" => Len(Fetched) = Len(matched)
====
